---- MODULE Spec2Model ----
(***************************************************************************)
(* Model of src/api_pdf.py: the HTTP endpoint converter_pdf_por_nome, the  *)
(* background pipeline processar_pdf_em_background and the block detector  *)
(* detectar_blocos.                                                        *)
(*                                                                         *)
(* External libraries (pdf2image, PIL, OpenCV, pytesseract, the web        *)
(* framework) are the environment: each call either returns or raises, and *)
(* the outcome is a nondeterministic choice.  A file operation is one      *)
(* atomic step.  A file's content is abstracted to the identity of the run *)
(* that wrote it last.                                                     *)
(*                                                                         *)
(* Init draws the inputs from two scenarios: several overlapping requests  *)
(* for a short document, and few requests for a long one.                  *)
(***************************************************************************)
EXTENDS Integers, Sequences, FiniteSets, Bags, TLC

\* ---------------------------------------------------------------- bounds
\* Scenario "overlap": MaxReq requests for a document of up to MaxPagCurto pages.
MaxReq == 2
MaxPagCurto == 1
\* Scenario "long document": MaxReqLongo requests for a document of up to MaxPag pages.
MaxReqLongo == 1
MaxPag == 3
\* Largest number of contours found on a page inside the pipeline.
MaxBlocos == 1
\* Largest number of contours handed to the detector on its own.
MaxContours == 3

\* ------------------------------------------------------ program constants
\* if w > 40 and h > 15
LarguraMin == 40
AlturaMin == 15

\* File names a client may ask for.
Nomes == {"a.pdf", "z.pdf"}
\* PASTA_PDFS: the input directory; the program never writes to it.
PASTA_PDFS == {"a.pdf"}
\* caminho_pdf.is_file()
is_file(n) == n \in PASTA_PDFS
\* caminho_pdf.stem
stem(n) == IF n = "a.pdf" THEN "a" ELSE "z"

\* f"{nome_base}_pagina_{i}.png" / ".txt": the name is the pair (base, page);
\* the extension is carried by the directory the file lives in.
NomeSaida(base, i) == <<base, i>>

VARIABLES
    clientes,             \* number of requests the clients issue (fixed by Init)
    paginas_doc,          \* page count of the document a.pdf (fixed by Init)
    nome_arquivo,         \* request -> file name asked for ("" = not issued yet)
    resposta,             \* request -> status of the handler's response (0 = none)
    enviada,              \* request -> the response has been sent to the client
    tarefas,              \* request -> number of background tasks added
    pc,                   \* run -> position in processar_pdf_em_background
    i,                    \* run -> loop variable i
    total_paginas,        \* run -> total_paginas
    pendentes,            \* run -> blocks of the current page still to be OCRed
    etapa_falha,          \* run -> step in which the caught exception was raised
    puladas,              \* run -> pages skipped by "if not imagem_pagina: continue"
    processadas,          \* run -> pages handed to convert_from_path, in order
    PASTA_IMAGENS,        \* output file name -> run that wrote it last
    PASTA_TEXTO_IMAGEM,   \* output file name -> run that wrote it last
    dpc,                  \* detector on its own: "off" | "entrada" | "fim"
    contours,             \* detector on its own: bounding rectangles of the contours
    blocos                \* detector on its own: the list returned

reqVars == <<nome_arquivo, resposta, enviada, tarefas>>
runVars == <<pc, i, total_paginas, pendentes, etapa_falha, puladas, processadas>>
diskVars == <<PASTA_IMAGENS, PASTA_TEXTO_IMAGEM>>
detVars == <<dpc, contours, blocos>>
envVars == <<clientes, paginas_doc>>
vars == <<envVars, reqVars, runVars, diskVars, detVars>>

Reqs == 1..clientes
\* info['Pages'] of the document
Paginas(n) == paginas_doc

Terminal == {"Done", "Failed"}

\* ---------------------------------------------------------- detectar_blocos
\* Bounding rectangles (x, y, w, h) around the filter's thresholds.
Tamanhos == {<<LarguraMin - 1, AlturaMin + 1>>, <<LarguraMin, AlturaMin>>,
             <<LarguraMin, AlturaMin + 1>>, <<LarguraMin + 1, AlturaMin - 1>>,
             <<LarguraMin + 1, AlturaMin>>, <<LarguraMin + 1, AlturaMin + 1>>}
Rects == {<<0, y, t[1], t[2]>> : y \in {0, 1, 2}, t \in Tamanhos}

RECURSIVE SeqsUpTo(_, _)
SeqsUpTo(S, n) ==
    IF n = 0 THEN {<<>>}
    ELSE LET T == SeqsUpTo(S, n - 1)
         IN T \cup {Append(s, e) : s \in {t \in T : Len(t) = n - 1}, e \in S}

\* Faulty variant: the thresholds themselves pass the filter.
FiltroInclusivo(w, h) == w >= LarguraMin /\ h >= AlturaMin
\* if w > 40 and h > 15
FiltroRuido(w, h) == w > LarguraMin /\ h > AlturaMin

\* Faulty variant: the sort key is the left coordinate x.
ChaveX(b) == b[1]
\* key=lambda b: b[1]  (Python's index 1 is the tuple's second field, y)
Chave(b) == b[2]

\* One insertion of a stable sort: b goes after every element whose key is
\* not greater.
Inserir(s, b) ==
    LET k == Cardinality({j \in 1..Len(s) : Chave(s[j]) <= Chave(b)})
    IN SubSeq(s, 1, k) \o <<b>> \o SubSeq(s, k + 1, Len(s))

RECURSIVE sorted(_)
sorted(s) ==
    IF s = <<>> THEN <<>>
    ELSE Inserir(sorted(SubSeq(s, 1, Len(s) - 1)), s[Len(s)])

Passa(b) == FiltroRuido(b[3], b[4])

detectar_blocos(cs) == sorted(SelectSeq(cs, Passa))

\* ------------------------------------------------------------ file system
\* Faulty variant: an existing file is left as it is (first writer wins).
EscreverSeAusente(pasta, arq, r) ==
    IF arq \in DOMAIN pasta THEN pasta
    ELSE [f \in DOMAIN pasta \cup {arq} |-> IF f = arq THEN r ELSE pasta[f]]
\* imagem.save(path, "PNG") / open(path, "w"): the file is created or
\* truncated and rewritten; its content is now that of run r.
Escrever(pasta, arq, r) ==
    [f \in DOMAIN pasta \cup {arq} |-> IF f = arq THEN r ELSE pasta[f]]

\* Faulty variant: the page number in the name is off by one.
NomeSaidaSeguinte(base, k) == <<base, k + 1>>
\* The output name of page k of the run's document.
NomeSaidaDe(base, k) == NomeSaida(base, k)

nome_base(r) == stem(nome_arquivo[r])
ArquivoAtual(r) == NomeSaidaDe(nome_base(r), i[r])

\* Faulty variant: the page image is never saved.
NaoGravarImagem(r) == PASTA_IMAGENS
\* imagem.save(caminho_imagem_saida, "PNG")
GravarImagem(r) == Escrever(PASTA_IMAGENS, ArquivoAtual(r), r)

\* Faulty variant: the page text is never written.
NaoGravarTexto(r) == PASTA_TEXTO_IMAGEM
\* with open(caminho_texto_saida, "w", encoding="utf-8") as f: f.write(...)
GravarTexto(r) == Escrever(PASTA_TEXTO_IMAGEM, ArquivoAtual(r), r)

\* ------------------------------------------------------------------ Init
\* The inputs: how many requests arrive, and how long the document is.
Cenarios ==
    {<<MaxReq, n>> : n \in 1..MaxPagCurto} \cup {<<MaxReqLongo, n>> : n \in 1..MaxPag}

CenariosLongos == {<<MaxReqLongo, n>> : n \in 1..MaxPag}

InitEnv(C) == \E c \in C : clientes = c[1] /\ paginas_doc = c[2]

InitReq ==
    /\ nome_arquivo = [r \in Reqs |-> ""]
    /\ resposta = [r \in Reqs |-> 0]
    /\ enviada = [r \in Reqs |-> FALSE]
    /\ tarefas = [r \in Reqs |-> 0]

InitRun ==
    /\ pc = [r \in Reqs |-> "Idle"]
    /\ i = [r \in Reqs |-> 0]
    /\ total_paginas = [r \in Reqs |-> 0]
    /\ pendentes = [r \in Reqs |-> 0]
    /\ etapa_falha = [r \in Reqs |-> ""]
    /\ puladas = [r \in Reqs |-> {}]
    /\ processadas = [r \in Reqs |-> <<>>]

\* os.makedirs(..., exist_ok=True): the output directories exist and, for the
\* documents of the model, hold no file yet.
InitDisk ==
    /\ PASTA_IMAGENS = <<>>
    /\ PASTA_TEXTO_IMAGEM = <<>>

Init ==
    /\ InitEnv(Cenarios)
    /\ InitReq /\ InitRun /\ InitDisk
    /\ dpc = "off" /\ contours = <<>> /\ blocos = <<>>

\* ------------------------------------------------- converter_pdf_por_nome
\* Faulty variant: the existence check is missing.
is_file_sempre(n) == TRUE
\* if not caminho_pdf.is_file(): raise HTTPException(404)
ArquivoExiste(n) == is_file(n)

\* The whole handler: the existence check, then either the 404 or add_task
\* and the 202 response object.
converter_pdf_por_nome(r, n) ==
    /\ nome_arquivo[r] = ""
    /\ nome_arquivo' = [nome_arquivo EXCEPT ![r] = n]
    /\ IF ~ArquivoExiste(n)
       THEN /\ resposta' = [resposta EXCEPT ![r] = 404]
            /\ UNCHANGED tarefas
       ELSE /\ tarefas' = [tarefas EXCEPT ![r] = @ + 1]
            /\ resposta' = [resposta EXCEPT ![r] = 202]
    /\ UNCHANGED <<enviada, runVars, diskVars, detVars, envVars>>

\* The framework sends the response the handler returned.
EnviarResposta(r) ==
    /\ resposta[r] # 0
    /\ ~enviada[r]
    /\ enviada' = [enviada EXCEPT ![r] = TRUE]
    /\ UNCHANGED <<nome_arquivo, resposta, tarefas, runVars, diskVars, detVars, envVars>>

\* Faulty variant: the task starts as soon as it is added.
TarefaIniciaAoAgendar(r) == tarefas[r] > 0
\* background_tasks.add_task(...): the task runs after the response is sent.
TarefaPodeIniciar(r) == tarefas[r] > 0 /\ enviada[r]

\* ------------------------------------------- processar_pdf_em_background
\* Faulty variant: the page is tried again after an exception.
PcRepetir == "Rasterize"
\* except Exception as e: print(...)  -- the function returns.
PcAposExcecao == "Failed"

\* The except clause: the run ends, whatever it was doing.
Falhar(r, etapa) ==
    /\ pc' = [pc EXCEPT ![r] = PcAposExcecao]
    /\ etapa_falha' = [etapa_falha EXCEPT ![r] = etapa]
    /\ pendentes' = [pendentes EXCEPT ![r] = 0]

\* Faulty variant: range(1, total_paginas), which stops one page short.
ContinuaCurto(k, total) == k < total
\* for i in range(1, total_paginas + 1)
Continua(k, total) == k <= total

\* Next iteration of the for loop, or the end of the function.
Avancar(r) ==
    /\ i' = [i EXCEPT ![r] = @ + 1]
    /\ pc' = [pc EXCEPT ![r] =
                IF Continua(i[r] + 1, total_paginas[r]) THEN "Rasterize" ELSE "Done"]

\* info = pdfinfo_from_path(caminho_pdf_str); total_paginas = info['Pages']
Probe(r) ==
    /\ pc[r] = "Idle"
    /\ TarefaPodeIniciar(r)
    /\ \/ /\ total_paginas' = [total_paginas EXCEPT ![r] = Paginas(nome_arquivo[r])]
          /\ i' = [i EXCEPT ![r] = 1]
          /\ pc' = [pc EXCEPT ![r] =
                      IF Continua(1, Paginas(nome_arquivo[r])) THEN "Rasterize" ELSE "Done"]
          /\ UNCHANGED <<etapa_falha, pendentes>>
       \/ /\ Falhar(r, "Probe")
          /\ UNCHANGED <<total_paginas, i>>
    /\ UNCHANGED <<puladas, processadas, reqVars, diskVars, detVars, envVars>>

\* imagem_pagina = convert_from_path(..., first_page=i, last_page=i)
\* if not imagem_pagina: continue
Rasterize(r) ==
    /\ pc[r] = "Rasterize"
    /\ processadas' = [processadas EXCEPT ![r] = Append(@, i[r])]
    /\ \/ /\ pc' = [pc EXCEPT ![r] = "Save"]
          /\ UNCHANGED <<i, puladas, etapa_falha, pendentes>>
       \/ /\ puladas' = [puladas EXCEPT ![r] = @ \cup {i[r]}]
          /\ Avancar(r)
          /\ UNCHANGED <<etapa_falha, pendentes>>
       \/ /\ Falhar(r, "Rasterize")
          /\ UNCHANGED <<i, puladas>>
    /\ UNCHANGED <<total_paginas, reqVars, diskVars, detVars, envVars>>

\* imagem.save(caminho_imagem_saida, "PNG").  When it raises, the file may
\* have been created or truncated already, or not touched at all.
Save(r) ==
    /\ pc[r] = "Save"
    /\ \/ /\ PASTA_IMAGENS' = GravarImagem(r)
          /\ pc' = [pc EXCEPT ![r] = "Detect"]
          /\ UNCHANGED <<etapa_falha, pendentes>>
       \/ /\ PASTA_IMAGENS' = GravarImagem(r)
          /\ Falhar(r, "Save")
       \/ /\ UNCHANGED PASTA_IMAGENS
          /\ Falhar(r, "Save")
    /\ UNCHANGED <<i, total_paginas, puladas, processadas, PASTA_TEXTO_IMAGEM,
                   reqVars, detVars, envVars>>

\* Contours a page can show inside the pipeline.
ContornosDaPagina == SeqsUpTo({<<0, 0, LarguraMin, AlturaMin>>,
                               <<0, 0, LarguraMin + 1, AlturaMin + 1>>}, MaxBlocos)

\* blocos = detectar_blocos(imagem); texto_final = []
Detect(r) ==
    /\ pc[r] = "Detect"
    /\ \/ \E cs \in ContornosDaPagina :
             LET n == Len(detectar_blocos(cs))
             IN /\ pendentes' = [pendentes EXCEPT ![r] = n]
                /\ pc' = [pc EXCEPT ![r] = IF n = 0 THEN "Persist" ELSE "OCR"]
                /\ UNCHANGED etapa_falha
       \/ Falhar(r, "Detect")
    /\ UNCHANGED <<i, total_paginas, puladas, processadas, reqVars, diskVars, detVars, envVars>>

\* One iteration of "for (x, y, w, h) in blocos": crop, image_to_string, append.
OCR(r) ==
    /\ pc[r] = "OCR"
    /\ \/ /\ pendentes' = [pendentes EXCEPT ![r] = @ - 1]
          /\ pc' = [pc EXCEPT ![r] = IF pendentes[r] = 1 THEN "Persist" ELSE "OCR"]
          /\ UNCHANGED etapa_falha
       \/ Falhar(r, "OCR")
    /\ UNCHANGED <<i, total_paginas, puladas, processadas, reqVars, diskVars, detVars, envVars>>

\* with open(caminho_texto_saida, "w", ...) as f: f.write("\n\n".join(texto_final))
\* When it raises, the file may have been created or truncated already.
Persist(r) ==
    /\ pc[r] = "Persist"
    /\ \/ /\ PASTA_TEXTO_IMAGEM' = GravarTexto(r)
          /\ pc' = [pc EXCEPT ![r] = "Release"]
          /\ UNCHANGED <<etapa_falha, pendentes>>
       \/ /\ PASTA_TEXTO_IMAGEM' = GravarTexto(r)
          /\ Falhar(r, "Persist")
       \/ /\ UNCHANGED PASTA_TEXTO_IMAGEM
          /\ Falhar(r, "Persist")
    /\ UNCHANGED <<i, total_paginas, puladas, processadas, PASTA_IMAGENS,
                   reqVars, detVars, envVars>>

\* del imagem; del imagem_pagina; gc.collect(); then the next iteration.
Release(r) ==
    /\ pc[r] = "Release"
    /\ Avancar(r)
    /\ UNCHANGED <<total_paginas, pendentes, etapa_falha, puladas, processadas,
                   reqVars, diskVars, detVars, envVars>>

\* One step of run r.
Passo(r) ==
    \/ Probe(r) \/ Rasterize(r) \/ Save(r) \/ Detect(r)
    \/ OCR(r) \/ Persist(r) \/ Release(r)

\* Request slots of the largest scenario; Reqs are those of the current one.
Slots == 1..(IF MaxReq > MaxReqLongo THEN MaxReq ELSE MaxReqLongo)

Next ==
    \/ \E r \in Slots, n \in Nomes : r \in Reqs /\ converter_pdf_por_nome(r, n)
    \/ \E r \in Slots : r \in Reqs /\ EnviarResposta(r)
    \/ \E r \in Slots : r \in Reqs /\ Probe(r)
    \/ \E r \in Slots : r \in Reqs /\ Rasterize(r)
    \/ \E r \in Slots : r \in Reqs /\ Save(r)
    \/ \E r \in Slots : r \in Reqs /\ Detect(r)
    \/ \E r \in Slots : r \in Reqs /\ OCR(r)
    \/ \E r \in Slots : r \in Reqs /\ Persist(r)
    \/ \E r \in Slots : r \in Reqs /\ Release(r)

Spec == Init /\ [][Next]_vars

\* Fair scheduling of the worker threads and of the framework: a run that can
\* take a step eventually takes one, a response that can be sent is sent.
\* Requests are the clients' choice and are not forced.
InitLive ==
    /\ InitEnv(CenariosLongos)
    /\ InitReq /\ InitRun /\ InitDisk
    /\ dpc = "off" /\ contours = <<>> /\ blocos = <<>>

LiveSpec ==
    /\ InitLive /\ [][Next]_vars
    /\ \A r \in 1..MaxReqLongo : WF_vars(Passo(r)) /\ WF_vars(EnviarResposta(r))

\* ------------------------------------------- detectar_blocos on its own
InitDet ==
    /\ clientes = 0 /\ paginas_doc = 0
    /\ InitReq /\ InitRun /\ InitDisk
    /\ dpc = "entrada"
    /\ contours \in SeqsUpTo(Rects, MaxContours)
    /\ blocos = <<>>

\* blocos = detectar_blocos(imagem), the contours of the image being given.
ChamarDetector ==
    /\ dpc = "entrada"
    /\ blocos' = detectar_blocos(contours)
    /\ dpc' = "fim"
    /\ UNCHANGED <<contours, envVars, reqVars, runVars, diskVars>>

NextDet == ChamarDetector

SpecDet == InitDet /\ [][NextDet]_vars

\* ============================================================== claims
\* Files of a directory whose content was written by run r.
EscritosPor(pasta, r) == {f \in DOMAIN pasta : pasta[f] = r}
\* The output names of pages 1..n of run r's document.
NomesEsperados(r, n) == {NomeSaida(stem(nome_arquivo[r]), k) : k \in 1..n}
Mudou(pasta, pasta2, f) == f \notin DOMAIN pasta \/ pasta2[f] # pasta[f]
Ocorrencias(s, b) == Cardinality({j \in DOMAIN s : s[j] = b})
Elementos(s) == {s[j] : j \in DOMAIN s}

\* C1 (as stated): a run that reaches Done on a document of N pages leaves
\* exactly the N page images and the N page texts in the output directories.
C1_Original ==
    \A r \in Reqs :
        pc[r] = "Done" =>
            /\ DOMAIN PASTA_IMAGENS = NomesEsperados(r, total_paginas[r])
            /\ DOMAIN PASTA_TEXTO_IMAGEM = NomesEsperados(r, total_paginas[r])

\* C1 (amended): a run that reaches Done on a document of N pages, and in
\* which no rasterization returned an empty list (no page was skipped),
\* leaves exactly the N page images and the N page texts in the output
\* directories: page count = image-file count = text-file count.
C1_SemPaginaPulada ==
    \A r \in Reqs :
        (pc[r] = "Done" /\ puladas[r] = {}) =>
            /\ DOMAIN PASTA_IMAGENS = NomesEsperados(r, total_paginas[r])
            /\ DOMAIN PASTA_TEXTO_IMAGEM = NomesEsperados(r, total_paginas[r])
            /\ Cardinality(DOMAIN PASTA_IMAGENS) = total_paginas[r]
            /\ Cardinality(DOMAIN PASTA_TEXTO_IMAGEM) = total_paginas[r]

C1_Witness ==
    \E r \in Reqs :
        /\ pc[r] = "Done" /\ puladas[r] = {}
        /\ total_paginas[r] = MaxPag
        /\ Cardinality(DOMAIN PASTA_TEXTO_IMAGEM) = MaxPag

\* C2 (as stated): when a run fails while processing page k, no file written
\* by that run exists for page k or any later page, neither PNG nor text.
C2_Original ==
    \A r \in Reqs :
        (pc[r] = "Failed" /\ i[r] >= 1) =>
            \A f \in EscritosPor(PASTA_IMAGENS, r) \cup EscritosPor(PASTA_TEXTO_IMAGEM, r) :
                f[2] < i[r]

\* C2 (amended): when a run fails while processing page k, no file written by
\* that run exists for any page after k; a text file of page k written by that
\* run exists only if the exception came from the text write itself, and a PNG
\* of page k written by that run only if it came from the image save or a
\* later step of the page (detection, OCR, text write).
C2_SoAtePaginaDaFalha ==
    \A r \in Reqs :
        (pc[r] = "Failed" /\ i[r] >= 1) =>
            /\ \A f \in EscritosPor(PASTA_IMAGENS, r) \cup EscritosPor(PASTA_TEXTO_IMAGEM, r) :
                   f[2] <= i[r]
            /\ \A f \in EscritosPor(PASTA_TEXTO_IMAGEM, r) :
                   f[2] = i[r] => etapa_falha[r] = "Persist"
            /\ \A f \in EscritosPor(PASTA_IMAGENS, r) :
                   f[2] = i[r] => etapa_falha[r] \in {"Save", "Detect", "OCR", "Persist"}

C2_Witness ==
    \E r \in Reqs :
        /\ pc[r] = "Failed" /\ etapa_falha[r] = "OCR" /\ i[r] = 2
        /\ <<stem(nome_arquivo[r]), 2>> \in EscritosPor(PASTA_IMAGENS, r)
        /\ <<stem(nome_arquivo[r]), 1>> \in EscritosPor(PASTA_TEXTO_IMAGEM, r)

\* C3: a request for a name that is not a file of the input directory is
\* answered 404, schedules no task, never starts a run and writes no file.
C3_NaoEncontrado ==
    \A r \in Reqs :
        (nome_arquivo[r] # "" /\ nome_arquivo[r] \notin PASTA_PDFS) =>
            /\ resposta[r] = 404
            /\ tarefas[r] = 0
            /\ pc[r] = "Idle" /\ processadas[r] = <<>>
            /\ EscritosPor(PASTA_IMAGENS, r) = {}
            /\ EscritosPor(PASTA_TEXTO_IMAGEM, r) = {}

C3_Witness ==
    \E r \in Reqs :
        nome_arquivo[r] = "z.pdf" /\ resposta[r] = 404 /\ enviada[r]

\* C4: a request for an existing file schedules exactly one task and is
\* answered 202; the response is sent before the task's first step (the
\* probe), and it is the same 202 whether the run ends Done or Failed.
C4_AceitoAntesDaTarefa ==
    \A r \in Reqs :
        (nome_arquivo[r] # "" /\ nome_arquivo[r] \in PASTA_PDFS) =>
            /\ tarefas[r] = 1
            /\ resposta[r] = 202
            /\ pc[r] # "Idle" => enviada[r]

C4_Witness ==
    \E r \in Reqs :
        pc[r] = "Failed" /\ resposta[r] = 202 /\ enviada[r] /\ tarefas[r] = 1

Aceito(r) == r \in Reqs /\ resposta[r] = 202 /\ enviada[r]
Pagina1NoDisco(r) ==
    /\ r \in Reqs
    /\ <<stem(nome_arquivo[r]), 1>> \in DOMAIN PASTA_IMAGENS
    /\ <<stem(nome_arquivo[r]), 1>> \in DOMAIN PASTA_TEXTO_IMAGEM

C6_OrdenadoPorY ==
    dpc = "fim" =>
        /\ \A j \in 1..(Len(blocos) - 1) : blocos[j][2] <= blocos[j + 1][2]
        /\ \A b \in Rects :
               Ocorrencias(blocos, b) = Ocorrencias(SelectSeq(contours, Passa), b)
        /\ Len(blocos) = Len(SelectSeq(contours, Passa))

C6_Witness ==
    /\ dpc = "fim"
    /\ Len(blocos) = MaxContours
    /\ blocos # contours
    /\ blocos[1][2] < blocos[2][2]

\* C7 (as stated): a rectangle is dropped if w < 40 or h < 15 and kept if
\* w >= 40 and h >= 15; with no rectangle kept the result is empty.
C7_Original ==
    dpc = "fim" =>
        /\ \A b \in Elementos(contours) :
               /\ (b[3] < LarguraMin \/ b[4] < AlturaMin) => b \notin Elementos(blocos)
               /\ (b[3] >= LarguraMin /\ b[4] >= AlturaMin) => b \in Elementos(blocos)
        /\ (\A b \in Elementos(contours) : b[3] < LarguraMin \/ b[4] < AlturaMin)
               => blocos = <<>>

\* C7 (amended): a rectangle is dropped if w <= 40 or h <= 15 and kept if
\* w > 40 and h > 15 (a rectangle of exactly width 40 or exactly height 15 is
\* dropped); with no rectangle kept the result is the empty list.
C7_FiltroEstrito ==
    dpc = "fim" =>
        /\ \A b \in Elementos(contours) :
               /\ (b[3] <= LarguraMin \/ b[4] <= AlturaMin) => b \notin Elementos(blocos)
               /\ (b[3] > LarguraMin /\ b[4] > AlturaMin) => b \in Elementos(blocos)
        /\ (\A b \in Elementos(contours) : b[3] <= LarguraMin \/ b[4] <= AlturaMin)
               => blocos = <<>>

C7_Witness ==
    /\ dpc = "fim"
    /\ \E b \in Elementos(contours) :
           b[3] = LarguraMin /\ b[4] > AlturaMin /\ b \notin Elementos(blocos)
    /\ \E b \in Elementos(contours) :
           b[3] > LarguraMin /\ b[4] = AlturaMin /\ b \notin Elementos(blocos)
    /\ blocos # <<>>

EmCurso == {"Rasterize", "Save", "Detect", "OCR", "Persist", "Release"}
ArquivosMudados(pasta, pasta2) == {f \in DOMAIN pasta2 : Mudou(pasta, pasta2, f)}

\* What C8 says of every state: the pages handed to the rasterizer so far are
\* 1, 2, ..., m in that order (each once, m <= N); a run has a recorded
\* exception exactly when it is Failed; and a run that has started is either
\* in a terminal state or able to take its next step.
C8_Estado ==
    \A r \in Reqs :
        /\ processadas[r] = [k \in 1..Len(processadas[r]) |-> k]
        /\ Len(processadas[r]) <= total_paginas[r]
        /\ (etapa_falha[r] # "") <=> (pc[r] = "Failed")
        /\ pc[r] \in EmCurso \cup Terminal \cup {"Idle"}
        /\ pc[r] \in EmCurso => ENABLED Passo(r)

\* What C8 says of every step: Done and Failed are final (no retry, no
\* resumption: the run rasterizes nothing more and writes nothing more), and
\* the step in which the exception is caught changes no file but, at most,
\* the one being written for the failing page.
C8_Passo ==
    \A r \in Reqs :
        /\ pc[r] \in Terminal =>
              /\ pc'[r] = pc[r] /\ i'[r] = i[r]
              /\ processadas'[r] = processadas[r] /\ etapa_falha'[r] = etapa_falha[r]
              /\ \A f \in ArquivosMudados(PASTA_IMAGENS, PASTA_IMAGENS') :
                     PASTA_IMAGENS'[f] # r
              /\ \A f \in ArquivosMudados(PASTA_TEXTO_IMAGEM, PASTA_TEXTO_IMAGEM') :
                     PASTA_TEXTO_IMAGEM'[f] # r
        /\ (pc[r] # "Failed" /\ pc'[r] = "Failed") =>
              /\ ArquivosMudados(PASTA_IMAGENS, PASTA_IMAGENS') \subseteq {ArquivoAtual(r)}
              /\ ArquivosMudados(PASTA_TEXTO_IMAGEM, PASTA_TEXTO_IMAGEM')
                     \subseteq {ArquivoAtual(r)}
              /\ DOMAIN PASTA_IMAGENS \subseteq DOMAIN PASTA_IMAGENS'
              /\ DOMAIN PASTA_TEXTO_IMAGEM \subseteq DOMAIN PASTA_TEXTO_IMAGEM'

\* C8: within a run the pages are processed in the order 1..N, each at most
\* once; the first exception moves the run to Failed, after which it
\* rasterizes no page and writes no file, and the files of earlier pages stay
\* as they were; every run ends in Done or in Failed.
C8_FalhaEncerra == [](C8_Estado) /\ [][C8_Passo]_vars

C8_Witness ==
    \E r \in Reqs :
        /\ pc[r] = "Failed" /\ i[r] = 2 /\ processadas[r] = <<1, 2>>
        /\ <<stem(nome_arquivo[r]), 1>> \in EscritosPor(PASTA_IMAGENS, r)
        /\ <<stem(nome_arquivo[r]), 1>> \in EscritosPor(PASTA_TEXTO_IMAGEM, r)

\* What C9 says of every state: a run in progress can always take its next
\* step, and a scheduled run whose response was sent can always start,
\* whatever the other runs are doing.
C9_Estado ==
    \A r \in Reqs :
        /\ pc[r] \in EmCurso => ENABLED Passo(r)
        /\ (pc[r] = "Idle" /\ tarefas[r] > 0 /\ enviada[r]) => ENABLED Probe(r)

\* What C9 says of every step: a run that completes the write of a file
\* leaves its own content in it, whatever was there; and a file's content
\* changes only by the write of the run whose content it then holds.
C9_Passo ==
    /\ \A r \in Reqs :
          /\ (pc[r] = "Save" /\ pc'[r] = "Detect") =>
                 /\ ArquivoAtual(r) \in DOMAIN PASTA_IMAGENS'
                 /\ PASTA_IMAGENS'[ArquivoAtual(r)] = r
          /\ (pc[r] = "Persist" /\ pc'[r] = "Release") =>
                 /\ ArquivoAtual(r) \in DOMAIN PASTA_TEXTO_IMAGEM'
                 /\ PASTA_TEXTO_IMAGEM'[ArquivoAtual(r)] = r
    /\ \A f \in ArquivosMudados(PASTA_IMAGENS, PASTA_IMAGENS') :
          LET w == PASTA_IMAGENS'[f] IN pc[w] = "Save" /\ f = ArquivoAtual(w)
    /\ \A f \in ArquivosMudados(PASTA_TEXTO_IMAGEM, PASTA_TEXTO_IMAGEM') :
          LET w == PASTA_TEXTO_IMAGEM'[f] IN pc[w] = "Persist" /\ f = ArquivoAtual(w)

\* C9: overlapping runs for the same file name do not block, serialize or
\* cancel one another, they write the same output files, and each file holds
\* what the run that wrote it last put there.
C9_UltimoEscritorVence == [](C9_Estado) /\ [][C9_Passo]_vars

\* Both runs are over; the image of page 1 is run 1's, its text is run 2's.
C9_Witness ==
    /\ clientes >= 2
    /\ nome_arquivo[1] = nome_arquivo[2]
    /\ pc[1] = "Done" /\ pc[2] = "Done"
    /\ <<stem(nome_arquivo[1]), 1>> \in EscritosPor(PASTA_IMAGENS, 1)
    /\ <<stem(nome_arquivo[1]), 1>> \in EscritosPor(PASTA_TEXTO_IMAGEM, 2)

\* C10: a page's text file exists only if its image exists; a run is past the
\* image save of a page only with that image on disk, writes the page's text
\* only when no block is left to OCR, and has not written it before.
C10_TextoImplicaImagem ==
    /\ DOMAIN PASTA_TEXTO_IMAGEM \subseteq DOMAIN PASTA_IMAGENS
    /\ \A r \in Reqs :
          /\ pc[r] \in {"Detect", "OCR", "Persist", "Release"} =>
                 ArquivoAtual(r) \in DOMAIN PASTA_IMAGENS
          /\ pc[r] = "Persist" => pendentes[r] = 0
          /\ pc[r] \in {"Save", "Detect", "OCR", "Persist"} =>
                 ArquivoAtual(r) \notin EscritosPor(PASTA_TEXTO_IMAGEM, r)

\* An image without its text (the converse fails), beside a page that has both.
C10_Witness ==
    \E r \in Reqs :
        /\ pc[r] = "Failed"
        /\ <<stem(nome_arquivo[r]), 1>> \in DOMAIN PASTA_TEXTO_IMAGEM
        /\ <<stem(nome_arquivo[r]), 2>> \in DOMAIN PASTA_IMAGENS
        /\ <<stem(nome_arquivo[r]), 2>> \notin DOMAIN PASTA_TEXTO_IMAGEM

====
